---- MODULE Spec2Model ----
(***************************************************************************)
(* State-machine model of mev_optimized.js: the arbitrage cycle            *)
(* (checkAndTrade), its retried service calls (getQuote, getSwapPayload,   *)
(* sendTransactionWithSimulation), the transaction assembler               *)
(* (createOptimizedTransaction) and the supervising main loop.             *)
(*                                                                         *)
(* One action is the code that runs between two awaits: JavaScript runs    *)
(* it without interleaving.  Every external call (pricing service,         *)
(* instruction service, notification endpoint, RPC node, web3.js compile   *)
(* and serialize) answers with a nondeterministic outcome.                 *)
(***************************************************************************)
EXTENDS Integers, Sequences, FiniteSets, TLC

\* ---------------------------------------------------------------- constants
INPUT_USDC == 10000000
MIN_PROFIT_USDC == 1200
MAX_TX_SIZE == 1232
MAX_RETRIES == 3
maxAlts == 2
ALT_RAW_LIMIT == 1000
maxConsecutiveErrors == 5
COOLDOWN_MS == 30000
LOOP_DELAY_MS == 5000
BACKOFF_MS == 1000

\* ------------------------------------------------------------------- bounds
\* The code never resets consecutiveErrors on a failure, so a run of failed
\* cycles is unbounded: a cycle starts only while the counter is below this.
MaxErrors == 5
\* Largest retry count the retry specification draws (SpecRetries).
MaxRetryCount == 4
\* Longest lookup-table list the instruction service answers with.
MaxTableList == 3

\* ------------------------------------------------------------ external data
\* Output amounts the pricing service quotes for the buy leg.
BuyOutputs == {60000}
\* Output amounts the pricing service quotes for the sell leg: around the
\* threshold INPUT_USDC + MIN_PROFIT_USDC, and well below it.
SellOutputs == {10000500, 10001199, 10001200}

\* Lookup tables the instruction service may return: key, length of the raw
\* base64-decoded blob, whether AddressLookupTableAccount.deserialize
\* accepts it, and what tbl.serialize() yields (-1: it throws).
Tables ==
  { [key |-> 1, rawLen |-> 1000, decodable |-> TRUE,  serLen |-> 500],
    [key |-> 3, rawLen |-> 1001, decodable |-> TRUE,  serLen |-> 900],
    [key |-> 4, rawLen |-> 10,   decodable |-> FALSE, serLen |-> 10] }

\* A population with three keepable tables of different sizes under
\* different keys, and one whose serialize() throws.
SizeTables ==
  { [key |-> 1, rawLen |-> 1000, decodable |-> TRUE, serLen |-> 500],
    [key |-> 2, rawLen |-> 50,   decodable |-> TRUE, serLen |-> 50],
    [key |-> 3, rawLen |-> 10,   decodable |-> TRUE, serLen |-> 10],
    [key |-> 5, rawLen |-> 60,   decodable |-> TRUE, serLen |-> -1] }

\* A population with a second, smaller table under key 1.
KeyTables ==
  Tables \cup { [key |-> 1, rawLen |-> 40, decodable |-> TRUE, serLen |-> 40] }

\* The lists the service answers with when it draws from the tables of S: no
\* table twice in one response.
TableListsOver(S) ==
  { l \in UNION { [1..n -> S] : n \in 0..MaxTableList } :
      \A a, b \in 1..Len(l) : a # b => l[a] # l[b] }

TableLists == TableListsOver(Tables)

\* No response held.
NoRes == [leg |-> "none", addressLookupTableAccounts |-> <<>>]

\* What compileToV0Message + serialize yield for one strategy: the serialized
\* length, or -1 when compiling throws, or -2 when serialize() throws.
CompileThrows == -1
SerializeThrows == -2
\* A strategy that was not attempted.
NotCompiled == -3
CompileOutcomes == {SerializeThrows, CompileThrows, MAX_TX_SIZE, MAX_TX_SIZE + 1}

\* connection.getLatestBlockhash() results.
Blockhashes ==
  { [blockhash |-> 1, lastValidBlockHeight |-> 151],
    [blockhash |-> 2, lastValidBlockHeight |-> 152] }

NoAmount == -1
\* The retry count of the runs over SizeTables and KeyTables.
TablesRetries == 2
NoTx == [instructions |-> <<>>, tables |-> <<>>, blockhash |-> 0,
         size |-> 0, signed |-> FALSE]
NoConfirm == [signature |-> "", blockhash |-> 0, lastValidBlockHeight |-> 0]

VARIABLES
  pc,                 \* where the single thread of control is awaiting
  leg,                \* "buy" / "sell": which leg the retried call serves
  i,                  \* loop index of the retried call in progress
  retries,            \* the retry count the retried calls run with
  consecutiveErrors,  \* main loop counter (line 414)
  sleepMs,            \* duration of the sleep in progress, 0 when none
  loc,                \* checkAndTrade's locals
  calls,              \* external calls made in the current cycle, per kind
  outcome,            \* outcome of the last finished cycle
  tableSet,           \* the lookup tables the instruction service draws from
  lastError,          \* error caught at line 391 in this cycle, "" when none
  attemptSim,         \* simulation result of the current submit attempt
  retryReqs,          \* requests made by the retried call in progress
  retryWaits,         \* backoff waits of the retried call in progress
  notification,       \* field names of the last record sent to Telegram
  broadcasts          \* transactions handed to connection.sendTransaction

vars == <<pc, leg, i, retries, tableSet, consecutiveErrors, sleepMs, loc, calls, outcome,
          lastError, attemptSim, retryReqs, retryWaits, notification,
          broadcasts>>

NoLoc ==
  [quoteBuy |-> NoAmount, quoteSell |-> NoAmount,
   ins1 |-> <<>>, ins2 |-> <<>>, alts1 |-> <<>>, alts2 |-> <<>>,
   optimizedAlts |-> <<>>,
   blockhash |-> 0, lastValidBlockHeight |-> 0,
   \* createOptimizedTransaction's compile outcomes, while its result is
   \* awaited
   withAlts |-> NotCompiled, withoutAlts |-> NotCompiled,
   atomicTx |-> NoTx, txid |-> "", confirmArgs |-> NoConfirm,
   confirmResult |-> "",
   \* getSwapPayload's res of the request answered by the last step
   res |-> NoRes]

NoCalls ==
  [quote |-> 0, swap |-> 0, notify |-> 0, blockhash |-> 0, assemble |-> 0,
   sign |-> 0, simulate |-> 0, broadcast |-> 0, confirm |-> 0]

\* ------------------------------------------------------------- pure helpers
\* Faulty variant: the profit threshold is left out of the comparison.
ProfitOk_NoThreshold(sellOut) == ~(sellOut < INPUT_USDC)

\* Line 310-311: the cycle goes on unless BigInt(outAmount) < required.
ProfitOk(sellOut) == ~(sellOut < INPUT_USDC + MIN_PROFIT_USDC)

\* Faulty variant: a constant backoff.
Backoff_Constant(k) == BACKOFF_MS

\* Lines 66, 136, 278, 289: sleep(1000 * (i + 1)).
Backoff(k) == BACKOFF_MS * (k + 1)

\* Faulty variant: the final attempt is recognised one iteration late.
IsLastAttempt_Late(k, n) == k = n

\* Faulty variant: the error is raised one attempt early.
IsLastAttempt_Early(k, n) == k >= n - 2

\* Lines 65, 135, 277, 288: i === retries - 1.
IsLastAttempt(k, n) == k = n - 1

\* Lines 320-325: the record handed to BotOpportunity.
OpportunityFields == {"profit", "inputAmount", "fees", "privateKey"}

\* Faulty variant: a successful cycle leaves the counter alone.
mainLoopCounter_NoReset(success, ce) == IF success THEN ce ELSE ce + 1

\* Lines 419-424: the counter after a cycle that returned success.
mainLoopCounter(success, ce) == IF success THEN 0 ELSE ce + 1

\* Faulty variant: a failed cycle leaves the loop.
mainLoopNextPc_ExitOnFailure(success) ==
  IF success THEN "main_sleep" ELSE "exited"

\* Lines 417-437: while (true) has no exit; every cycle is followed by
\* await sleep(5000).
mainLoopNextPc(success) == "main_sleep"

\* Lines 109-130: the lookup tables getSwapPayload keeps from a response.
RECURSIVE FilterAltsFrom(_, _, _)
FilterAltsFrom(list, k, lookupTables) ==
  IF k > Len(list) THEN lookupTables
  ELSE LET tbl == list[k] IN
       IF tbl.rawLen > ALT_RAW_LIMIT THEN FilterAltsFrom(list, k + 1, lookupTables)
       ELSE IF ~tbl.decodable THEN FilterAltsFrom(list, k + 1, lookupTables)
       ELSE LET kept == Append(lookupTables, tbl) IN
            IF Len(kept) >= maxAlts THEN kept
            ELSE FilterAltsFrom(list, k + 1, kept)

Min2(a, b) == IF a < b THEN a ELSE b

\* Faulty variant: the whole response is scanned until maxAlts tables are kept.
FilterAlts_NoSlice(list) == FilterAltsFrom(list, 1, <<>>)

\* Line 112: (res.addressLookupTableAccounts || []).slice(0, maxAlts).
FilterAlts(list) == FilterAltsFrom(SubSeq(list, 1, Min2(maxAlts, Len(list))), 1, <<>>)

\* Lines 338-351: one entry per key not seen before, in order; a table whose
\* serialize() throws leaves no entry but its key stays in seen.
RECURSIVE AltSizesFrom(_, _, _, _)
AltSizesFrom(allAlts, k, seen, altSizes) ==
  IF k > Len(allAlts) THEN altSizes
  ELSE LET tbl == allAlts[k] IN
       IF tbl.key \in seen THEN AltSizesFrom(allAlts, k + 1, seen, altSizes)
       ELSE IF tbl.serLen < 0
            THEN AltSizesFrom(allAlts, k + 1, seen \cup {tbl.key}, altSizes)
            ELSE AltSizesFrom(allAlts, k + 1, seen \cup {tbl.key},
                              Append(altSizes, tbl))

\* Line 354: Array.prototype.sort is stable; ascending by size.
RECURSIVE SortBySize(_)
InsertBySize(sorted, x) ==
  LET before == { n \in 1..Len(sorted) : sorted[n].serLen <= x.serLen }
      at == Cardinality(before)
  IN SubSeq(sorted, 1, at) \o <<x>> \o SubSeq(sorted, at + 1, Len(sorted))
SortBySize(s) ==
  IF s = <<>> THEN <<>>
  ELSE InsertBySize(SortBySize(SubSeq(s, 1, Len(s) - 1)), s[Len(s)])

\* Faulty variant: the entries are taken in order of arrival, unsorted.
OptimizeAlts_NoSort(alts1, alts2) ==
  LET altSizes == AltSizesFrom(alts1 \o alts2, 1, {}, <<>>)
  IN SubSeq(altSizes, 1, Min2(2, Len(altSizes)))

\* Lines 333-355: optimizedAlts from the two legs' tables.
OptimizeAlts(alts1, alts2) ==
  LET altSizes == SortBySize(AltSizesFrom(alts1 \o alts2, 1, {}, <<>>))
  IN SubSeq(altSizes, 1, Min2(2, Len(altSizes)))

\* Faulty variant: the sell leg is placed first.
AllInstructions_SellFirst(ins1, ins2) == ins2 \o ins1

\* Line 363: allInstructions.
AllInstructions(ins1, ins2) == ins1 \o ins2

\* Faulty variant: the size is logged but never compared with the limit.
validateAndOptimizeTransaction_NoLimit(serialized) ==
  IF serialized = SerializeThrows THEN [valid |-> FALSE, size |-> 0]
  ELSE [valid |-> TRUE, size |-> serialized]

\* Lines 164-180: serialized is the serialize() outcome.
validateAndOptimizeTransaction(serialized) ==
  IF serialized = SerializeThrows THEN [valid |-> FALSE, size |-> 0]
  ELSE IF serialized > MAX_TX_SIZE THEN [valid |-> FALSE, size |-> serialized]
  ELSE [valid |-> TRUE, size |-> serialized]

\* Faulty variant: a failed with-tables strategy returns null at once.
createOptimizedTransaction_NoFallback(instructions, lookupTables, blockhash, withAlts, withoutAlts) ==
  LET tx(tables, size) ==
        [instructions |-> instructions, tables |-> tables,
         blockhash |-> blockhash, size |-> size, signed |-> FALSE]
      fits(w) == w >= 0 /\ w <= MAX_TX_SIZE
  IN IF Len(lookupTables) > 0
     THEN IF fits(withAlts) THEN tx(lookupTables, withAlts) ELSE NoTx
     ELSE IF fits(withoutAlts) THEN tx(<<>>, withoutAlts) ELSE NoTx

\* Lines 190-235.  withAlts / withoutAlts: the outcome of compiling and
\* serializing with the given tables / with none.
createOptimizedTransaction(instructions, lookupTables, blockhash, withAlts, withoutAlts) ==
  LET tx(tables, size) ==
        [instructions |-> instructions, tables |-> tables,
         blockhash |-> blockhash, size |-> size, signed |-> FALSE]
      strategy1 == /\ Len(lookupTables) > 0
                   /\ withAlts # CompileThrows
                   /\ validateAndOptimizeTransaction(withAlts).valid
      strategy2 == /\ withoutAlts # CompileThrows
                   /\ validateAndOptimizeTransaction(withoutAlts).valid
  IN IF strategy1 THEN tx(lookupTables, withAlts)
     ELSE IF strategy2 THEN tx(<<>>, withoutAlts)
     ELSE NoTx

\* Faulty variant: a failed simulation on a non-final attempt falls through
\* to the broadcast.
AfterSimulation_FallThrough(simulationOk, k, n) ==
  IF simulationOk \/ ~(k = n - 1) THEN "broadcast" ELSE "throw"

\* Lines 273-280: what follows simulateTransaction's answer in attempt k.
AfterSimulation(simulationOk, k, n) ==
  IF simulationOk THEN "broadcast"
  ELSE IF IsLastAttempt(k, n) THEN "throw" ELSE "sleep"

\* Faulty variant: the confirmation is tied to a blockhash other than the
\* one the transaction was compiled with.
ConfirmArgs_OtherBlockhash(txid, blockhash, lastValidBlockHeight) ==
  [signature |-> txid, blockhash |-> blockhash + 1,
   lastValidBlockHeight |-> lastValidBlockHeight + 1]

\* Lines 379-383: the argument of connection.confirmTransaction.
ConfirmArgs(txid, blockhash, lastValidBlockHeight) ==
  [signature |-> txid, blockhash |-> blockhash,
   lastValidBlockHeight |-> lastValidBlockHeight]

\* ------------------------------------------------------------------ actions
\* Faulty variant: a successful cycle is followed at once by the next one.
EndCycle_NoDelayAfterSuccess(success) ==
  /\ outcome' = IF success THEN "Confirmed" ELSE "Failed"
  /\ consecutiveErrors' = mainLoopCounter(success, consecutiveErrors)
  /\ pc' = mainLoopNextPc(success)
  /\ sleepMs' = IF success THEN 0 ELSE LOOP_DELAY_MS

\* Lines 419-424, 436 (with the return false of lines 314, 370, 388, 393 or
\* the return true of line 385): the cycle is over, the loop counts it and
\* starts the inter-cycle sleep.  The loop's own catch (lines 425-433, with
\* the sleep(30000) and the reset) is never entered: the try of line 302
\* spans all of checkAndTrade and its catch returns false.
EndCycle(success) ==
  /\ outcome' = IF success THEN "Confirmed" ELSE "Failed"
  /\ consecutiveErrors' = mainLoopCounter(success, consecutiveErrors)
  /\ pc' = mainLoopNextPc(success)
  /\ sleepMs' = LOOP_DELAY_MS

\* A retried call starts: its first loop iteration issues a request.
StartRetried ==
  /\ i' = 0
  /\ retryReqs' = 1
  /\ retryWaits' = <<>>

\* A non-final attempt failed: await sleep(1000 * (i + 1)).
StartBackoff(sleepPc) ==
  /\ pc' = sleepPc
  /\ sleepMs' = Backoff(i)
  /\ retryWaits' = Append(retryWaits, Backoff(i))

\* Lines 403-417: the state when the main loop is entered, the retried calls
\* running with retry count n and the instruction service drawing from S.
InitState(n, S) ==
  /\ pc = "start"
  /\ leg = "buy"
  /\ i = 0
  /\ retries = n
  /\ tableSet = S
  /\ consecutiveErrors = 0
  /\ sleepMs = 0
  /\ loc = NoLoc
  /\ calls = NoCalls
  /\ outcome = "none"
  /\ lastError = ""
  /\ attemptSim = "none"
  /\ retryReqs = 0
  /\ retryWaits = <<>>
  /\ notification = {}
  /\ broadcasts = {}

InitWith(n) == InitState(n, Tables)

\* Line 37: every retried call runs with the default retry count.
Init == InitWith(MAX_RETRIES)

\* Lines 96-112: the instruction service answers from one of the richer
\* populations.
InitTables == \E S \in {SizeTables, KeyTables} : InitState(TablesRetries, S)

\* Lines 56, 78, 268: the retry count is a parameter; any count from 0 up.
InitRetries == \E n \in 0..MaxRetryCount : InitWith(n)

\* Lines 417-419, 436, 301-306, 56-60: at startup, or when the inter-cycle
\* sleep is over, the loop calls checkAndTrade, which calls getQuote for the
\* buy leg; with a retry count of 0 getQuote's loop body never runs, it
\* returns undefined and quoteBuy.outAmount throws into the catch of line 391.
StartCycle ==
  /\ pc \in {"start", "main_sleep"}
  /\ consecutiveErrors < MaxErrors
  /\ loc' = NoLoc
  /\ lastError' = IF 0 < retries THEN "" ELSE "TypeError"
  /\ attemptSim' = "none"
  /\ notification' = {}
  /\ broadcasts' = {}
  /\ leg' = "buy"
  /\ i' = 0
  /\ retryWaits' = <<>>
  /\ IF 0 < retries
     THEN /\ pc' = "getQuote_fetch"
          /\ retryReqs' = 1
          /\ calls' = [NoCalls EXCEPT !.quote = 1]
          /\ sleepMs' = 0
          /\ UNCHANGED <<consecutiveErrors, outcome>>
     ELSE /\ retryReqs' = 0
          /\ calls' = NoCalls
          /\ EndCycle(FALSE)
  /\ UNCHANGED <<retries, tableSet>>

\* Lines 60-66: the fetch fails or the response has no outAmount.
GetQuoteFail ==
  /\ pc = "getQuote_fetch"
  /\ \E err \in {"transportError", "noOutAmount"} :
       IF IsLastAttempt(i, retries)
       THEN /\ lastError' = err
            /\ EndCycle(FALSE)
            /\ UNCHANGED retryWaits
       ELSE /\ StartBackoff("getQuote_sleep")
            /\ UNCHANGED <<lastError, outcome, consecutiveErrors>>
  /\ UNCHANGED <<leg, i, retries, tableSet, loc, calls, attemptSim, retryReqs,
                 notification, broadcasts>>

\* Lines 66, 57-60: the backoff is over, the next iteration issues a request
\* (i + 1 < retries holds after every non-final attempt).
GetQuoteRetry ==
  /\ pc = "getQuote_sleep"
  /\ pc' = "getQuote_fetch"
  /\ i' = i + 1
  /\ sleepMs' = 0
  /\ retryReqs' = retryReqs + 1
  /\ calls' = [calls EXCEPT !.quote = @ + 1]
  /\ UNCHANGED <<leg, retries, tableSet, consecutiveErrors, loc, outcome, lastError,
                 attemptSim, retryWaits, notification, broadcasts>>

\* Lines 62, 306-307: the buy quote arrives; getQuote is called for the sell
\* leg with the buy quote's outAmount.
GetQuoteBuyOk ==
  /\ pc = "getQuote_fetch"
  /\ leg = "buy"
  /\ \E out \in BuyOutputs : loc' = [loc EXCEPT !.quoteBuy = out]
  /\ leg' = "sell"
  /\ StartRetried
  /\ calls' = [calls EXCEPT !.quote = @ + 1]
  /\ UNCHANGED <<pc, retries, tableSet, consecutiveErrors, sleepMs, outcome, lastError,
                 attemptSim, notification, broadcasts>>

\* Lines 62, 307-326, 151-153: the sell quote arrives; below the required
\* amount the cycle returns false, otherwise the opportunity record is
\* posted to the notification endpoint and awaited.
GetQuoteSellOk ==
  /\ pc = "getQuote_fetch"
  /\ leg = "sell"
  /\ \E out \in SellOutputs :
       /\ loc' = [loc EXCEPT !.quoteSell = out]
       /\ IF ProfitOk(out)
          THEN /\ pc' = "notify"
               /\ notification' = OpportunityFields
               /\ calls' = [calls EXCEPT !.notify = @ + 1]
               /\ UNCHANGED <<consecutiveErrors, sleepMs, outcome>>
          ELSE /\ EndCycle(FALSE)
               /\ UNCHANGED <<notification, calls>>
  /\ UNCHANGED <<leg, i, retries, tableSet, lastError, attemptSim, retryReqs,
                 retryWaits, broadcasts>>

\* Lines 152-154, 326-329, 78-81: the notification fetch settles (a failure
\* is swallowed by .catch); getSwapPayload is called for the buy quote.
NotifyDone ==
  /\ pc = "notify"
  /\ \E delivered \in BOOLEAN :
       /\ pc' = "getSwapPayload_fetch"
       /\ leg' = "buy"
       /\ StartRetried
       /\ calls' = [calls EXCEPT !.swap = @ + 1]
  /\ UNCHANGED <<retries, tableSet, consecutiveErrors, sleepMs, loc, outcome, lastError,
                 attemptSim, notification, broadcasts>>

\* Lines 90-94, 133-136: the fetch fails or the response has no
\* swapInstruction.
GetSwapPayloadFail ==
  /\ pc = "getSwapPayload_fetch"
  /\ \E err \in {"transportError", "noSwapInstruction"} :
       IF IsLastAttempt(i, retries)
       THEN /\ lastError' = err
            /\ EndCycle(FALSE)
            /\ UNCHANGED retryWaits
       ELSE /\ StartBackoff("getSwapPayload_sleep")
            /\ UNCHANGED <<lastError, outcome, consecutiveErrors>>
  /\ loc' = [loc EXCEPT !.res = NoRes]
  /\ UNCHANGED <<leg, i, retries, tableSet, calls, attemptSim, retryReqs,
                 notification, broadcasts>>

\* Lines 136, 79-81.
GetSwapPayloadRetry ==
  /\ pc = "getSwapPayload_sleep"
  /\ pc' = "getSwapPayload_fetch"
  /\ i' = i + 1
  /\ sleepMs' = 0
  /\ retryReqs' = retryReqs + 1
  /\ calls' = [calls EXCEPT !.swap = @ + 1]
  /\ UNCHANGED <<leg, retries, tableSet, consecutiveErrors, loc, outcome, lastError,
                 attemptSim, retryWaits, notification, broadcasts>>

\* Lines 96-132, 329-330: the buy leg's instruction and kept tables are
\* returned; getSwapPayload is called for the sell quote.
GetSwapPayloadBuyOk ==
  /\ pc = "getSwapPayload_fetch"
  /\ leg = "buy"
  /\ \E list \in TableListsOver(tableSet) :
       loc' = [loc EXCEPT !.ins1 = <<[quote |-> "buy"]>>,
                          !.alts1 = FilterAlts(list),
                          !.res = [leg |-> "buy",
                                   addressLookupTableAccounts |-> list]]
  /\ leg' = "sell"
  /\ StartRetried
  /\ calls' = [calls EXCEPT !.swap = @ + 1]
  /\ UNCHANGED <<pc, retries, tableSet, consecutiveErrors, sleepMs, outcome, lastError,
                 attemptSim, notification, broadcasts>>

\* Lines 96-132, 330-360: the sell leg's instruction and kept tables are
\* returned, the tables of both legs are optimized and the latest blockhash
\* is requested.
GetSwapPayloadSellOk ==
  /\ pc = "getSwapPayload_fetch"
  /\ leg = "sell"
  /\ \E list \in TableListsOver(tableSet) :
       LET alts2 == FilterAlts(list) IN
       loc' = [loc EXCEPT !.ins2 = <<[quote |-> "sell"]>>,
                          !.alts2 = alts2,
                          !.optimizedAlts = OptimizeAlts(loc.alts1, alts2),
                          !.res = [leg |-> "sell",
                                   addressLookupTableAccounts |-> list]]
  /\ pc' = "getLatestBlockhash"
  /\ calls' = [calls EXCEPT !.blockhash = @ + 1]
  /\ UNCHANGED <<leg, i, retries, tableSet, consecutiveErrors, sleepMs, outcome,
                 lastError, attemptSim, retryReqs, retryWaits, notification,
                 broadcasts>>

\* Line 360 throws into the catch of line 391.
GetLatestBlockhashFail ==
  /\ pc = "getLatestBlockhash"
  /\ lastError' = "blockhashError"
  /\ EndCycle(FALSE)
  /\ loc' = [loc EXCEPT !.res = NoRes]
  /\ UNCHANGED <<leg, i, retries, tableSet, calls, attemptSim, retryReqs,
                 retryWaits, notification, broadcasts>>

\* Lines 360-366, 190-235: the blockhash arrives and the transaction is
\* assembled from the instructions of both legs; checkAndTrade awaits the
\* assembler's result.
GetLatestBlockhashOk ==
  /\ pc = "getLatestBlockhash"
  /\ \E bh \in Blockhashes, w1 \in CompileOutcomes, w2 \in CompileOutcomes :
       LET atomicTx == createOptimizedTransaction(
                         AllInstructions(loc.ins1, loc.ins2), loc.optimizedAlts,
                         bh.blockhash, w1, w2)
           tried1 == Len(loc.optimizedAlts) > 0
           tried2 == ~(tried1 /\ atomicTx.tables # <<>>)
       IN loc' = [loc EXCEPT
                    !.blockhash = bh.blockhash,
                    !.lastValidBlockHeight = bh.lastValidBlockHeight,
                    !.withAlts = IF tried1 THEN w1 ELSE NotCompiled,
                    !.withoutAlts = IF tried2 THEN w2 ELSE NotCompiled,
                    !.atomicTx = atomicTx,
                    \* allAlts is last read at line 357
                    !.alts1 = <<>>, !.alts2 = <<>>,
                    !.res = NoRes]
  /\ pc' = "createOptimizedTransaction"
  /\ calls' = [calls EXCEPT !.assemble = @ + 1]
  /\ UNCHANGED <<leg, i, retries, tableSet, consecutiveErrors, sleepMs, outcome,
                 lastError, attemptSim, retryReqs, retryWaits, notification,
                 broadcasts>>

\* Lines 366-371: the assembler returned null; the cycle returns false.
AssembleFail ==
  /\ pc = "createOptimizedTransaction"
  /\ loc.atomicTx = NoTx
  /\ loc' = [loc EXCEPT !.withAlts = NotCompiled, !.withoutAlts = NotCompiled]
  /\ EndCycle(FALSE)
  /\ UNCHANGED <<leg, i, retries, tableSet, calls, lastError, attemptSim,
                 retryReqs, retryWaits, notification, broadcasts>>

\* Faulty variant: the null check of line 368 is missing.
AssembleOk_NoNullCheck ==
  /\ pc = "createOptimizedTransaction"
  /\ loc' = [loc EXCEPT !.atomicTx.signed = TRUE,
                        !.withAlts = NotCompiled, !.withoutAlts = NotCompiled]
  /\ calls' = [calls EXCEPT !.sign = @ + 1, !.simulate = @ + 1]
  /\ StartRetried
  /\ attemptSim' = "pending"
  /\ pc' = "simulateTransaction"
  /\ UNCHANGED <<leg, retries, tableSet, consecutiveErrors, sleepMs, outcome, lastError,
                 notification, broadcasts>>

\* Lines 366-377, 268-273: the assembler returned a transaction; it is
\* signed and sendTransactionWithSimulation simulates it.
AssembleOk ==
  /\ pc = "createOptimizedTransaction"
  /\ loc.atomicTx # NoTx
  /\ loc' = [loc EXCEPT !.atomicTx.signed = TRUE,
                        !.withAlts = NotCompiled, !.withoutAlts = NotCompiled]
  /\ calls' = [calls EXCEPT !.sign = @ + 1, !.simulate = @ + 1]
  /\ StartRetried
  /\ attemptSim' = "pending"
  /\ pc' = "simulateTransaction"
  /\ UNCHANGED <<leg, retries, tableSet, consecutiveErrors, sleepMs, outcome, lastError,
                 notification, broadcasts>>

\* Lines 245-257, 273-283: simulateTransaction answers true (no err) or
\* false (err, or the RPC call threw).
SimulateDone ==
  /\ pc = "simulateTransaction"
  /\ \E simulationOk \in BOOLEAN :
       LET next == AfterSimulation(simulationOk, i, retries) IN
       /\ attemptSim' = IF simulationOk THEN "ok" ELSE "failed"
       /\ CASE next = "broadcast" ->
                 /\ pc' = "sendTransaction"
                 /\ calls' = [calls EXCEPT !.broadcast = @ + 1]
                 /\ broadcasts' = broadcasts \cup {loc.atomicTx}
                 /\ UNCHANGED <<sleepMs, retryWaits, lastError, outcome,
                                consecutiveErrors>>
            [] next = "sleep" ->
                 /\ StartBackoff("send_sleep")
                 /\ UNCHANGED <<calls, broadcasts, lastError, outcome,
                                consecutiveErrors>>
            [] OTHER ->
                 /\ lastError' = "simulationFailed"
                 /\ EndCycle(FALSE)
                 /\ UNCHANGED <<calls, broadcasts, retryWaits>>
  /\ UNCHANGED <<leg, i, retries, tableSet, loc, retryReqs, notification>>

\* Lines 283-285, 377-383: the broadcast returns a signature;
\* confirmTransaction is called with it and with the cycle's blockhash.
SendTransactionOk ==
  /\ pc = "sendTransaction"
  /\ loc' = [loc EXCEPT
               !.txid = "signature",
               !.confirmArgs = ConfirmArgs("signature", loc.blockhash,
                                           loc.lastValidBlockHeight)]
  /\ pc' = "confirmTransaction"
  /\ calls' = [calls EXCEPT !.confirm = @ + 1]
  /\ UNCHANGED <<leg, i, retries, tableSet, consecutiveErrors, sleepMs, outcome,
                 lastError, attemptSim, retryReqs, retryWaits, notification,
                 broadcasts>>

\* Lines 283, 286-289, 386-388: the broadcast throws.
SendTransactionFail ==
  /\ pc = "sendTransaction"
  /\ IF IsLastAttempt(i, retries)
     THEN /\ lastError' = "sendError"
          /\ EndCycle(FALSE)
          /\ UNCHANGED retryWaits
     ELSE /\ StartBackoff("send_sleep")
          /\ UNCHANGED <<lastError, outcome, consecutiveErrors>>
  /\ UNCHANGED <<leg, i, retries, tableSet, loc, calls, attemptSim, retryReqs,
                 notification, broadcasts>>

\* Lines 278-279 or 289, 269-273: after the backoff the next attempt
\* simulates again.
SendRetry ==
  /\ pc = "send_sleep"
  /\ pc' = "simulateTransaction"
  /\ i' = i + 1
  /\ sleepMs' = 0
  /\ attemptSim' = "pending"
  /\ retryReqs' = retryReqs + 1
  /\ calls' = [calls EXCEPT !.simulate = @ + 1]
  /\ UNCHANGED <<leg, retries, tableSet, consecutiveErrors, loc, outcome, lastError,
                 retryWaits, notification, broadcasts>>

\* Lines 379-385: confirmTransaction resolves, with or without an err in its
\* value, which the code does not read; the cycle returns true.
ConfirmResolved ==
  /\ pc = "confirmTransaction"
  /\ \E res \in {"ok", "err"} : loc' = [loc EXCEPT !.confirmResult = res]
  /\ EndCycle(TRUE)
  /\ UNCHANGED <<leg, i, retries, tableSet, calls, lastError, attemptSim, retryReqs,
                 retryWaits, notification, broadcasts>>

\* Lines 379-383, 386-388: confirmTransaction throws.
ConfirmFail ==
  /\ pc = "confirmTransaction"
  /\ loc' = [loc EXCEPT !.confirmResult = "throw"]
  /\ lastError' = "confirmError"
  /\ EndCycle(FALSE)
  /\ UNCHANGED <<leg, i, retries, tableSet, calls, attemptSim, retryReqs, retryWaits,
                 notification, broadcasts>>

Next ==
  \/ StartCycle
  \/ GetQuoteFail
  \/ GetQuoteRetry
  \/ GetQuoteBuyOk
  \/ GetQuoteSellOk
  \/ NotifyDone
  \/ GetSwapPayloadFail
  \/ GetSwapPayloadRetry
  \/ GetSwapPayloadBuyOk
  \/ GetSwapPayloadSellOk
  \/ GetLatestBlockhashFail
  \/ GetLatestBlockhashOk
  \/ AssembleFail
  \/ AssembleOk
  \/ SimulateDone
  \/ SendTransactionOk
  \/ SendTransactionFail
  \/ SendRetry
  \/ ConfirmResolved
  \/ ConfirmFail

Spec == Init /\ [][Next]_vars

\* The same program with the retry count drawn from 0..MaxRetryCount.
SpecRetries == InitRetries /\ [][Next]_vars

\* Every awaited external call and sleep eventually settles: the single thread
\* of control always has exactly one await pending, so some step is taken.
LiveSpec == Spec /\ WF_vars(Next)

\* The same program with the instruction service drawing from SizeTables or from
\* KeyTables.
SpecTables == InitTables /\ [][Next]_vars

\* =================================================================== claims
Required == INPUT_USDC + MIN_PROFIT_USDC
SubmitPcs == {"simulateTransaction", "sendTransaction", "send_sleep"}
RetriedFetchPcs == {"getQuote_fetch", "getSwapPayload_fetch"}
RetriedSleepPcs == {"getQuote_sleep", "getSwapPayload_sleep"}
\* The waits 1000, 2000, ..., 1000 * n.
LinearWaits(n) == [k \in 1..n |-> BACKOFF_MS * k]
Fits(w) == w >= 0 /\ w <= MAX_TX_SIZE

\* C1: an instruction-building request is made only if the sell quote's
\* output s is at least INPUT_USDC + MIN_PROFIT_USDC, s equal to that sum
\* proceeds (to the notification, then to building), and with s below it the
\* cycle has ended Failed, without an error, having made no
\* instruction-building, assembling, simulate or broadcast call.
C1_ProfitGate ==
  /\ calls.swap > 0 => loc.quoteSell >= Required
  /\ loc.quoteSell >= Required => (pc = "notify" \/ calls.swap > 0)
  /\ (loc.quoteSell # NoAmount /\ loc.quoteSell < Required) =>
       /\ pc = "main_sleep"
       /\ outcome = "Failed"
       /\ lastError = ""
       /\ calls.swap = 0 /\ calls.assemble = 0
       /\ calls.simulate = 0 /\ calls.broadcast = 0

C1_Witness ==
  /\ pc = "main_sleep"
  /\ loc.quoteSell = Required - 1
  /\ outcome = "Failed"
  /\ calls.swap = 0

\* C2: a broadcast is in flight only in an attempt whose own simulation
\* succeeded; every attempt simulates (simulate calls = attempts), so a
\* failed simulation is never followed by a broadcast without re-simulation.
C2_SimulateBeforeBroadcast ==
  /\ pc = "sendTransaction" => attemptSim = "ok"
  /\ pc \in SubmitPcs => /\ calls.simulate = i + 1
                         /\ calls.broadcast <= calls.simulate
  /\ (pc = "simulateTransaction") => attemptSim = "pending"
  /\ calls.broadcast <= calls.simulate

C2_Witness ==
  /\ pc = "sendTransaction"
  /\ i = 1
  /\ calls.simulate = 2
  /\ calls.broadcast = 1

\* C3: the transaction createOptimizedTransaction returned, and every
\* transaction signed, simulated or broadcast, serializes to at most
\* MAX_TX_SIZE bytes.
C3_TxWithinLimit ==
  /\ loc.atomicTx # NoTx => loc.atomicTx.size <= MAX_TX_SIZE
  /\ \A t \in broadcasts : t.size <= MAX_TX_SIZE

C3_Witness ==
  \E t \in broadcasts : t.signed /\ t.size = MAX_TX_SIZE /\ t.tables # <<>>

\* C4: once maxConsecutiveErrors consecutive cycles have failed, the pause
\* the loop is in is the COOLDOWN_MS cooldown.
C4_CooldownAfterFive ==
  (pc = "main_sleep" /\ outcome = "Failed"
     /\ consecutiveErrors >= maxConsecutiveErrors) => sleepMs = COOLDOWN_MS

\* C5: at most one transaction is signed and broadcast in a cycle, it is the
\* signed atomicTx holding the buy leg's instruction followed by the sell
\* leg's, and without an assembled transaction nothing is broadcast.
C5_OneAtomicTx ==
  /\ Cardinality(broadcasts) <= 1
  /\ calls.sign <= 1
  /\ \A t \in broadcasts :
       /\ t = loc.atomicTx
       /\ t.signed
       /\ t.instructions = <<[quote |-> "buy"], [quote |-> "sell"]>>
  /\ loc.atomicTx = NoTx => (broadcasts = {} /\ calls.broadcast = 0)

C5_Witness ==
  /\ calls.broadcast = 2
  /\ broadcasts # {}
  /\ pc = "confirmTransaction"

\* C6: the record sent to the notification endpoint carries only the
\* profit, the input amount and the fee estimate, never the private key.
C6_NoCredentialSent ==
  /\ "privateKey" \notin notification
  /\ notification \subseteq {"profit", "inputAmount", "fees"}

\* C7: a step that ends a cycle Failed adds exactly 1 to consecutiveErrors,
\* one that ends it Confirmed sets it to 0, and no other step changes it.
C7_CounterUpdate ==
  [][ IF pc' = "main_sleep"
      THEN \/ outcome' = "Failed" /\ consecutiveErrors' = consecutiveErrors + 1
           \/ outcome' = "Confirmed" /\ consecutiveErrors' = 0
      ELSE consecutiveErrors' = consecutiveErrors ]_vars

C7_Witness ==
  /\ pc = "main_sleep"
  /\ outcome = "Failed"
  /\ lastError = "sendError"
  /\ consecutiveErrors = 2

C9_TwoTierAssembly ==
  pc = "createOptimizedTransaction" =>
    LET tx == loc.atomicTx
        withOk == Len(loc.optimizedAlts) > 0 /\ Fits(loc.withAlts)
    IN /\ withOk => /\ tx # NoTx
                    /\ tx.tables = loc.optimizedAlts
                    /\ tx.size = loc.withAlts
       /\ (~withOk /\ Fits(loc.withoutAlts)) =>
            /\ tx # NoTx
            /\ tx.tables = <<>>
            /\ tx.size = loc.withoutAlts
       /\ ~withOk => loc.withoutAlts # NotCompiled
       /\ tx = NoTx => /\ loc.withoutAlts # NotCompiled
                       /\ ~Fits(loc.withoutAlts)

C9_Witness ==
  /\ pc = "createOptimizedTransaction"
  /\ Len(loc.optimizedAlts) > 0
  /\ loc.withAlts = CompileThrows
  /\ loc.atomicTx # NoTx
  /\ loc.atomicTx.tables = <<>>

\* C10: the loop has no exit: a cycle in progress always reaches the
\* inter-cycle sleep, a cycle that met an error ended Failed, and from the
\* inter-cycle sleep the next cycle starts (while the model's cap on
\* consecutive failures allows one).
C10_LoopNeverStops ==
  /\ (pc # "main_sleep") ~> (pc = "main_sleep")
  /\ [](pc = "main_sleep" /\ lastError # "" => outcome = "Failed")
  /\ (pc = "main_sleep" /\ consecutiveErrors < MaxErrors) ~> (pc = "getQuote_fetch")

C10_Witness ==
  /\ pc = "getQuote_fetch"
  /\ outcome = "Failed"
  /\ consecutiveErrors = 3

\* C11: once the broadcast has returned a signature no further simulate or
\* broadcast call is made in that cycle; a confirmation that throws ends the
\* cycle Failed; and confirmTransaction is called with that signature, the
\* blockhash the transaction was compiled with and the lastValidBlockHeight
\* fetched together with that blockhash.
C11_NoResubmitAfterBroadcast ==
  /\ [][ (loc.txid # "" /\ loc'.txid # "") =>
           /\ calls'.simulate = calls.simulate
           /\ calls'.broadcast = calls.broadcast
           /\ calls'.confirm = calls.confirm
           /\ broadcasts' = broadcasts ]_vars
  /\ [](loc.txid # "" =>
          /\ calls.confirm = 1
          /\ loc.confirmArgs.signature = loc.txid
          /\ loc.confirmArgs.blockhash = loc.atomicTx.blockhash
          /\ [blockhash |-> loc.confirmArgs.blockhash,
              lastValidBlockHeight |-> loc.confirmArgs.lastValidBlockHeight]
               \in Blockhashes
          /\ loc.confirmResult = "throw" =>
               (pc = "main_sleep" /\ outcome = "Failed"))

C11_Witness ==
  /\ pc = "main_sleep"
  /\ loc.txid # ""
  /\ loc.confirmResult = "throw"
  /\ loc.atomicTx.blockhash = 2
  /\ calls.broadcast = 1

\* A step that starts a cycle: the first request for the buy quote is issued.
CycleStarts == pc' = "getQuote_fetch" /\ leg' = "buy" /\ i' = 0

\* C13: a cycle starts only at startup or out of the inter-cycle sleep that
\* follows a finished cycle, never while a cycle is in progress; that sleep
\* is LOOP_DELAY_MS long after a Confirmed as after a Failed cycle, and the
\* step that ends it starts the next cycle.
C13_SequentialCycles ==
  /\ [][ CycleStarts =>
           \/ pc = "start"
           \/ /\ pc = "main_sleep"
              /\ sleepMs = LOOP_DELAY_MS
              /\ outcome \in {"Confirmed", "Failed"} ]_vars
  /\ [][ pc = "main_sleep" => CycleStarts ]_vars
  /\ [](pc = "main_sleep" => sleepMs = LOOP_DELAY_MS)

C13_Witness ==
  /\ pc = "getQuote_fetch" /\ leg = "buy" /\ i = 0
  /\ outcome = "Confirmed"
  /\ sleepMs = 0

\* C14: once the notification is dispatched the instruction-building
\* request has been issued too: the cycle never waits for the delivery.
C14_NotifyNotAwaited ==
  /\ calls.notify > 0 => calls.swap > 0
  /\ pc # "notify"

\* C16: when the assembler returns null the next step ends the cycle Failed
\* with no further external call; assembly runs at most once per cycle, and
\* without a transaction no sign, simulate, broadcast or confirm call is made.
C16_StructuralFailure ==
  /\ [][ (pc = "createOptimizedTransaction" /\ loc.atomicTx = NoTx) =>
           /\ pc' = "main_sleep"
           /\ outcome' = "Failed"
           /\ consecutiveErrors' = consecutiveErrors + 1
           /\ calls' = calls ]_vars
  /\ [](calls.assemble <= 1)
  /\ [](loc.atomicTx = NoTx =>
          /\ calls.sign = 0 /\ calls.simulate = 0
          /\ calls.broadcast = 0 /\ calls.confirm = 0)

C16_Witness ==
  /\ pc = "main_sleep"
  /\ outcome = "Failed"
  /\ calls.assemble = 1
  /\ loc.atomicTx = NoTx
  /\ Len(loc.optimizedAlts) > 0
  /\ calls.quote = 2 /\ calls.swap = 2

\* C18: a cycle is Confirmed only if confirmTransaction resolved without an
\* execution error.
C18_ConfirmedOnlyWithoutError ==
  (pc = "main_sleep" /\ outcome = "Confirmed") => loc.confirmResult = "ok"

\* C15: with retry count N >= 1, sendTransactionWithSimulation makes one
\* simulate call per attempt and at most N attempts, always on the one
\* signed transaction assembled once with the blockhash fetched once; the
\* failure of a non-final attempt is not surfaced but followed by a wait of
\* 1000 * (i + 1) ms; when it raised, N attempts were made and N - 1 waits.
C15_SubmitRetry ==
  retries >= 1 =>
    /\ pc \in SubmitPcs =>
         /\ retryReqs = i + 1 /\ retryReqs <= retries
         /\ calls.simulate = i + 1
         /\ lastError = ""
         /\ loc.atomicTx.signed
         /\ loc.atomicTx.blockhash = loc.blockhash
         /\ calls.sign = 1 /\ calls.assemble = 1 /\ calls.blockhash = 1
         /\ broadcasts \subseteq {loc.atomicTx}
    /\ pc \in {"simulateTransaction", "sendTransaction"} =>
         retryWaits = LinearWaits(i) /\ sleepMs = 0
    /\ pc = "send_sleep" =>
         /\ retryReqs < retries
         /\ attemptSim \in {"ok", "failed"}
         /\ retryWaits = LinearWaits(i + 1) /\ sleepMs = BACKOFF_MS * (i + 1)
    /\ (pc = "main_sleep" /\ lastError \in {"simulationFailed", "sendError"}) =>
         /\ outcome = "Failed"
         /\ retryReqs = retries
         /\ calls.simulate = retries
         /\ retryWaits = LinearWaits(retries - 1)
         /\ broadcasts \subseteq {loc.atomicTx}

C15_Witness ==
  /\ pc = "simulateTransaction"
  /\ retries = 4
  /\ i = 2
  /\ calls.broadcast = 1
  /\ retryWaits = <<1000, 2000>>

\* The stages of a cycle, in order.
StageRank(p) ==
  CASE p = "start" -> 0
    [] p \in {"getQuote_fetch", "getQuote_sleep"} -> 1
    [] p = "notify" -> 2
    [] p \in {"getSwapPayload_fetch", "getSwapPayload_sleep"} -> 3
    [] p = "getLatestBlockhash" -> 4
    [] p = "createOptimizedTransaction" -> 5
    [] p \in SubmitPcs -> 6
    [] p = "confirmTransaction" -> 7
    [] OTHER -> 8

\* C20: with the retry count MAX_RETRIES a cycle makes at most
\* 2 * MAX_RETRIES quote requests, 2 * MAX_RETRIES instruction requests,
\* 1 notification, 1 blockhash fetch, MAX_RETRIES simulate calls,
\* MAX_RETRIES broadcast calls and 1 confirm call; within a cycle no stage
\* is entered again after a later one (nor the buy leg after the sell leg);
\* and every cycle reaches its end.
C20_BoundedCycle ==
  /\ [](/\ calls.quote <= 2 * MAX_RETRIES
        /\ calls.swap <= 2 * MAX_RETRIES
        /\ calls.notify <= 1
        /\ calls.blockhash <= 1
        /\ calls.simulate <= MAX_RETRIES
        /\ calls.broadcast <= MAX_RETRIES
        /\ calls.confirm <= 1)
  /\ [][ pc # "main_sleep" =>
           /\ StageRank(pc') >= StageRank(pc)
           /\ (StageRank(pc') = StageRank(pc) /\ leg = "sell") => leg' = "sell"
       ]_vars
  /\ (pc # "main_sleep") ~> (pc = "main_sleep")

C20_Witness ==
  /\ pc = "confirmTransaction"
  /\ calls.quote = 6 /\ calls.swap = 6
  /\ calls.simulate = 3 /\ calls.broadcast = 3
  /\ calls.notify = 1 /\ calls.blockhash = 1 /\ calls.confirm = 1

\* C19: for every retry count, 0 included, a cycle that ended without a buy
\* quote ended so because getQuote raised one of its errors: getQuote never
\* returns without a result.
C19_ResultOrRaise ==
  (pc = "main_sleep" /\ loc.quoteBuy = NoAmount) =>
     lastError \in {"transportError", "noOutAmount"}

\* The elements of a sequence.
Range(s) == { s[k] : k \in 1..Len(s) }

\* The tables of allAlts that survive: the first table under each key, if it
\* can be serialized.
Survivors(allAlts) ==
  { allAlts[k] : k \in { n \in 1..Len(allAlts) :
                           /\ \A j \in 1..(n - 1) : allAlts[j].key # allAlts[n].key
                           /\ allAlts[n].serLen >= 0 } }

\* C12: when the optimization step has run on the buy-leg tables followed by
\* the sell-leg tables, the cycle goes on (also when a table could not be
\* serialized) with at most 2 tables, of pairwise distinct keys, each the
\* first table of its key and serializable, in ascending serialized length,
\* none larger than a surviving table left out, and as many as survive up to 2.
C12_OptimizedTables ==
  pc = "getLatestBlockhash" =>
    LET allAlts == loc.alts1 \o loc.alts2
        opt == loc.optimizedAlts
    IN /\ lastError = ""
       /\ Len(opt) <= 2
       /\ \A a, b \in 1..Len(opt) : a # b => opt[a].key # opt[b].key
       /\ Range(opt) \subseteq Survivors(allAlts)
       /\ \A a, b \in 1..Len(opt) : a < b => opt[a].serLen <= opt[b].serLen
       /\ \A t \in Survivors(allAlts) \ Range(opt) :
            \A a \in 1..Len(opt) : opt[a].serLen <= t.serLen
       /\ Len(opt) = Min2(2, Cardinality(Survivors(allAlts)))

C12_Witness ==
  /\ pc = "getLatestBlockhash"
  /\ Len(loc.alts1) = 2 /\ Len(loc.alts2) = 2
  /\ loc.alts1[2].serLen < 0
  /\ Cardinality(Survivors(loc.alts1 \o loc.alts2)) = 3
  /\ Len(loc.optimizedAlts) = 2
  /\ loc.optimizedAlts[1] = loc.alts2[2]
  /\ loc.optimizedAlts[2] = loc.alts2[1]

\* C17: when getSwapPayload has returned for a response carrying the list
\* res.addressLookupTableAccounts, the tables it returned are exactly the
\* tables among the first 2 of the list that are at most ALT_RAW_LIMIT bytes
\* raw and decodable, in received order: at most 2, none oversized, and no
\* table received after the second one.
C17_FirstTwoFiltered ==
  loc.res.leg # "none" =>
    LET list == loc.res.addressLookupTableAccounts
        out == IF loc.res.leg = "buy" THEN loc.alts1 ELSE loc.alts2
        first == SubSeq(list, 1, Min2(2, Len(list)))
        Kept(t) == t.rawLen <= ALT_RAW_LIMIT /\ t.decodable
    IN /\ Len(out) <= 2
       /\ \A k \in 1..Len(out) : out[k].rawLen <= ALT_RAW_LIMIT
       /\ \E f \in [1..Len(out) -> 1..Len(first)] :
            /\ \A k \in 1..Len(out) : out[k] = first[f[k]]
            /\ \A a, b \in 1..Len(out) : a < b => f[a] < f[b]
       /\ \A k \in 3..Len(list) : list[k] \notin Range(out)
       /\ out = SelectSeq(first, Kept)

C17_Witness ==
  /\ loc.res.leg = "buy"
  /\ Len(loc.res.addressLookupTableAccounts) = 3
  /\ loc.res.addressLookupTableAccounts[1].rawLen > ALT_RAW_LIMIT
  /\ loc.res.addressLookupTableAccounts[3].rawLen <= ALT_RAW_LIMIT
  /\ loc.res.addressLookupTableAccounts[3].decodable
  /\ loc.alts1 = <<loc.res.addressLookupTableAccounts[2]>>

====
